---- MODULE Spec2Model ----
(***************************************************************************)
(* Model of mdsim: the MDSimulation driver (simulation.py) with its        *)
(* force callback and diagnostic buffers, and the lazily cached derived    *)
(* quantities of TrajectoryAnalyzer (traj_analyzer.py).                    *)
(*                                                                         *)
(* numpy arrays are heap objects: the driver and a TrajectoryAnalyzer hold *)
(* references (heap ids) to the same six diagnostic arrays.  The numerical *)
(* integrator and the force-field are external collaborators; they are     *)
(* modelled as the environment that calls, and is called by, the driver.   *)
(***************************************************************************)
EXTENDS Integers, Sequences, FiniteSets, TLC

\* ---------------------------------------------------------------- bounds
MaxSteps == 2
MaxRuns == 2
MaxPos == 2
MaxDt == 1
MaxStray == 1
NumAtoms == 2
NumMolecules == 1
NumFrames == 2
MaxSpeed == 1
MaxEnergy == 1
MaxScale == 2
MaxPlots == 2

\* Python None for the object-valued attributes (a reference that is unset).
None == 0
\* Python None for the integer attribute _curr_step.
NoStep == -1

StepCounts == 0..MaxSteps
Atoms == 1..NumAtoms
Molecules == 1..NumMolecules
Coords == 1..MaxPos
StepSizes == 1..MaxDt
Frames == 1..NumFrames

\* ------------------------------------------------------------ collaborators
\* What the constructor can be handed: an instance of the required class, an
\* instance of a subclass of it, or an object of an unrelated class.
Kinds == {"exact", "subclass", "unrelated"}

IsInstanceMutant(kind) == TRUE
\* isinstance(obj, Required) and issubclass(obj.__class__, Required)
IsInstance(kind) == kind \in {"exact", "subclass"}

\* The condition of the two `if not isinstance(..) or not issubclass(..)` tests.
Rejects(kind) == (~IsInstance(kind)) \/ (~IsInstance(kind))

\* The ensemble the driver is built on (read-only accessors).
Ensemble ==
    [number_atoms_total |-> NumAtoms,
     number_molecules_total |-> NumMolecules,
     positions |-> 1,
     velocities |-> 0,
     box_lengths |-> "box"]

Abs(x) == IF x < 0 THEN -x ELSE x

\* Side-channel outputs the force-field exposes after evaluating positions q
\* (q is the spacing of the atoms on a line: atom a sits at a*q).  `malformed`
\* names the one output whose shape does not fit its buffer slot, if any.
FFEval(q, malformed) ==
    [energy_coulomb |-> q,
     energy_lennard_jones |-> 10 + q,
     energy_bond_vibration |-> 20 + q,
     energy_angle_vibration |-> 30 + q,
     bond_angles |-> [m \in Molecules |-> 40 + q],
     distances |-> [a \in Atoms |-> [b \in Atoms |-> Abs(a * q - b * q)]],
     acceleration |-> 0 - q,
     malformed |-> malformed]

\* The force-field before its first evaluation.
FFInitial ==
    [initialized |-> FALSE,
     pbc_cell_lengths |-> "unset",
     fitted |-> FALSE,
     out |-> FFEval(0, "none")]

\* ------------------------------------------------------- diagnostic buffers
\* The six buffers in the order _force writes them, and for each the
\* force-field attribute it is filled from.
BufferOrder ==
    <<"energy_potential_coulomb", "energy_potential_lennard_jones",
      "energy_potential_bond_vibration", "energy_potential_angle_vibration",
      "bond_angles", "distances_interatomic">>

BufferNames == {BufferOrder[k] : k \in 1..Len(BufferOrder)}

SourceOf(b) ==
    CASE b = "energy_potential_coulomb" -> "energy_coulomb"
      [] b = "energy_potential_lennard_jones" -> "energy_lennard_jones"
      [] b = "energy_potential_bond_vibration" -> "energy_bond_vibration"
      [] b = "energy_potential_angle_vibration" -> "energy_angle_vibration"
      [] b = "bond_angles" -> "bond_angles"
      [] b = "distances_interatomic" -> "distances"

\* np.zeros(n), np.zeros((n, m)), np.zeros((n, m, m))
Zeros(n) == [i \in 1..n |-> 0]
Zeros2(n, m) == [i \in 1..n |-> Zeros(m)]
Zeros3(n, m) == [i \in 1..n |-> Zeros2(m, m)]

AllocBuffersMutant(num_steps) ==
    [energy_potential_coulomb |-> Zeros(num_steps),
     energy_potential_lennard_jones |-> Zeros(num_steps),
     energy_potential_bond_vibration |-> Zeros(num_steps),
     energy_potential_angle_vibration |-> Zeros(num_steps),
     bond_angles |-> Zeros2(num_steps, Ensemble.number_molecules_total),
     distances_interatomic |-> Zeros3(num_steps, Ensemble.number_atoms_total)]
\* The six arrays run() creates for num_steps integration steps.
AllocBuffers(num_steps) ==
    [energy_potential_coulomb |-> Zeros(num_steps + 1),
     energy_potential_lennard_jones |-> Zeros(num_steps + 1),
     energy_potential_bond_vibration |-> Zeros(num_steps + 1),
     energy_potential_angle_vibration |-> Zeros(num_steps + 1),
     bond_angles |-> Zeros2(num_steps + 1, Ensemble.number_molecules_total),
     distances_interatomic |-> Zeros3(num_steps + 1, Ensemble.number_atoms_total)]

\* The in-run write log of freshly allocated arrays: no slot written yet.
NoWrites(arrs) == [b \in BufferNames |-> [i \in 1..Len(arrs[b]) |-> <<>>]]

\* A heap id no live object has.
FreshId(h) == CHOOSE i \in 1..(Cardinality(DOMAIN h) + 1) : i \notin DOMAIN h

\* h with the object id added or replaced.
Store(h, id, obj) == [i \in DOMAIN h \cup {id} |-> IF i = id THEN obj ELSE h[i]]

\* h without the objects nothing refers to any more.
Collect(h, live) == [i \in DOMAIN h \cap live |-> h[i]]

NewBuffersMutant(h, cur, num_steps) ==
    IF cur = None
    THEN [heap |-> Store(h, FreshId(h), AllocBuffers(num_steps)), id |-> FreshId(h)]
    ELSE [heap |-> Store(h, cur, AllocBuffers(num_steps)), id |-> cur]
\* Lines 121-128 bind the six attributes to new array objects: the arrays the
\* attributes referred to before (cur) are left as they are.
NewBuffers(h, cur, num_steps) ==
    [heap |-> Store(h, FreshId(h), AllocBuffers(num_steps)), id |-> FreshId(h)]

\* numpy integer indexing along the first axis of an array of length n:
\* index k is valid iff -n <= k < n, and a negative k counts from the end.
IndexValid(n, k) == (0 - n) <= k /\ k < n
Slot(n, k) == IF k < 0 THEN n + k + 1 ELSE k + 1

SetItemErrorMutant(arr, step, malformed) ==
    IF malformed THEN "ValueError" ELSE "none"
\* The exception `arr[step] = value` raises, or "none".
SetItemError(arr, step, malformed) ==
    IF step # NoStep /\ ~IndexValid(Len(arr), step) THEN "IndexError"
    ELSE IF malformed THEN "ValueError"
    ELSE "none"

SetItemMutant(arr, step, value) ==
    IF step = NoStep THEN [i \in 1..Len(arr) |-> value]
    ELSE [arr EXCEPT ![Slot(Len(arr), step - 1)] = value]
SetItemFromStepOn(arr, step, value) ==
    IF step = NoStep THEN [i \in 1..Len(arr) |-> value]
    ELSE [i \in 1..Len(arr) |-> IF i >= Slot(Len(arr), step) THEN value ELSE arr[i]]
\* `arr[step] = value`; with step None the index is numpy.newaxis and the
\* value is broadcast over the whole array.
SetItem(arr, step, value) ==
    IF step = NoStep THEN [i \in 1..Len(arr) |-> value]
    ELSE [arr EXCEPT ![Slot(Len(arr), step)] = value]

\* The slots `arr[step] = value` assigns: those of a probe array that differ
\* after the assignment.
SlotsSet(arr, step) ==
    LET probe == SetItem([i \in 1..Len(arr) |-> 1], step, 0)
    IN  {i \in 1..Len(arr) : probe[i] = 0}

\* ------------------------------------------------------------------- state
VARIABLES
    sim,          \* "absent", "ready" (constructed) or "rejected" (constructor raised)
    forcefield,   \* kind of the object passed as `forcefield`
    ensemble,     \* kind of the object passed as `ensemble`
    ff,           \* state of the force-field object
    heap,         \* the diagnostic array groups ever allocated, by heap id
    sized_for,    \* for each heap id, the num_steps it was allocated for
    wlog,         \* for each heap id, buffer and slot: the in-run invocations that wrote it
    buffers,      \* heap id the six _energy_*/_bond_angles/_distances attributes refer to
    curr_step,    \* _curr_step
    trajectory,   \* _trajectory: None or an index into trajs
    positions,    \* _positions
    velocities,   \* _velocities
    timestamps,   \* _timestamps
    trajs,        \* the TrajectoryAnalyzer objects ever constructed
    pc,           \* "idle", or "integrating" while ode.integrate runs inside run()
    run,          \* arguments and integrator state of the latest run() call
    runs,         \* number of run() calls so far
    strays,       \* number of _force calls made outside a run so far
    result,       \* operation last completed: its name, exception and return value
    ta,           \* a TrajectoryAnalyzer object: its arrays and its cache attributes
    computed,     \* for each derived quantity, how often its _calculate_* method ran
    got           \* the derived-quantity read last made and what it returned

analyzer_vars == <<ta, computed, got>>

driver_vars ==
    <<sim, forcefield, ensemble, ff, heap, sized_for, wlog, buffers, curr_step,
      trajectory, positions, velocities, timestamps, trajs, pc, run, runs, strays,
      result>>

NoRun ==
    [id |-> 0, num_steps |-> 0, dt |-> 1, pbc |-> FALSE, integrator |-> "contract",
     calls |-> 0, xs |-> <<>>, vs |-> <<>>, qs |-> <<>>, state |-> "none"]

\* ------------------------------------------------------------ MDSimulation
\* __init__: validate the collaborators, then set every result attribute to None.
Construct(ffKind, ensKind) ==
    /\ sim = "absent"
    /\ forcefield' = ffKind
    /\ ensemble' = ensKind
    /\ IF Rejects(ffKind) \/ Rejects(ensKind)
       THEN /\ sim' = "rejected"
            /\ result' = [op |-> "init", error |-> "ValueError", value |-> None]
       ELSE /\ sim' = "ready"
            /\ result' = [op |-> "init", error |-> "none", value |-> None]
    /\ buffers' = None
    /\ curr_step' = NoStep
    /\ trajectory' = None
    /\ positions' = <<>>
    /\ velocities' = <<>>
    /\ timestamps' = <<>>
    /\ UNCHANGED <<ff, heap, sized_for, wlog, trajs, pc, run, runs, strays>>
    /\ UNCHANGED analyzer_vars

TrajectoryPropertyMutant(t) == [error |-> "none", value |-> t]
\* The `trajectory` property.
TrajectoryProperty(t) ==
    IF t = None
    THEN [error |-> "ValueError", value |-> None]
    ELSE [error |-> "none", value |-> t]

ReadTrajectory ==
    /\ sim = "ready"
    /\ pc = "idle"
    /\ result' = [op |-> "trajectory"] @@ TrajectoryProperty(trajectory)
    /\ UNCHANGED <<sim, forcefield, ensemble, ff, heap, sized_for, wlog, buffers,
                   curr_step, trajectory, positions, velocities, timestamps, trajs,
                   pc, run, runs, strays>>
    /\ UNCHANGED analyzer_vars

RECURSIVE WriteSlotsMutant(_, _, _, _, _)
WriteSlotsMutant(arrs, step, out, k, done) ==
    IF k > Len(BufferOrder)
    THEN [arrs |-> arrs, written |-> done, error |-> "none"]
    ELSE LET b == BufferOrder[k]
             e == SetItemError(arrs[b], step, out.malformed = b)
         IN  IF e # "none"
             THEN WriteSlotsMutant(arrs, step, out, k + 1, done)
             ELSE WriteSlotsMutant(
                      [arrs EXCEPT ![b] = SetItem(@, step, out[SourceOf(b)])],
                      step, out, k + 1, done \cup {b})
RECURSIVE WriteSlotsEnergiesOnly(_, _, _, _, _)
WriteSlotsEnergiesOnly(arrs, step, out, k, done) ==
    IF k > 4
    THEN [arrs |-> arrs, written |-> done, error |-> "none"]
    ELSE LET b == BufferOrder[k]
             e == SetItemError(arrs[b], step, out.malformed = b)
         IN  IF e # "none"
             THEN [arrs |-> arrs, written |-> done, error |-> e]
             ELSE WriteSlotsEnergiesOnly(
                      [arrs EXCEPT ![b] = SetItem(@, step, out[SourceOf(b)])],
                      step, out, k + 1, done \cup {b})
\* The writes of _force, lines 195-206, from the k-th on, in order, stopping
\* at the first that raises; `written` collects the buffers assigned to.
RECURSIVE WriteSlots(_, _, _, _, _)
WriteSlots(arrs, step, out, k, done) ==
    IF k > Len(BufferOrder)
    THEN [arrs |-> arrs, written |-> done, error |-> "none"]
    ELSE LET b == BufferOrder[k]
             e == SetItemError(arrs[b], step, out.malformed = b)
         IN  IF e # "none"
             THEN [arrs |-> arrs, written |-> done, error |-> e]
             ELSE WriteSlots([arrs EXCEPT ![b] = SetItem(@, step, out[SourceOf(b)])],
                             step, out, k + 1, done \cup {b})

ForceNoIncrement(h, bufs, step, out) ==
    IF bufs = None
    THEN [heap |-> h, curr_step |-> step, written |-> {}, at |-> step,
          error |-> "TypeError", value |-> None]
    ELSE LET w == WriteSlots(h[bufs], step, out, 1, {})
             h2 == [h EXCEPT ![bufs] = w.arrs]
         IN  IF w.error # "none"
             THEN [heap |-> h2, curr_step |-> step, written |-> w.written,
                   at |-> step, error |-> w.error, value |-> None]
             ELSE [heap |-> h2, curr_step |-> step, written |-> w.written,
                   at |-> step, error |-> "none", value |-> out.acceleration]
ForceIncrementFirst(h, bufs, step, out) ==
    IF bufs = None \/ step = NoStep
    THEN [heap |-> h, curr_step |-> step, written |-> {}, at |-> step,
          error |-> "TypeError", value |-> None]
    ELSE LET w == WriteSlots(h[bufs], step + 1, out, 1, {})
             h2 == [h EXCEPT ![bufs] = w.arrs]
         IN  IF w.error # "none"
             THEN [heap |-> h2, curr_step |-> step + 1, written |-> w.written,
                   at |-> step + 1, error |-> w.error, value |-> None]
             ELSE [heap |-> h2, curr_step |-> step + 1, written |-> w.written,
                   at |-> step + 1, error |-> "none", value |-> out.acceleration]
ForceReadsBeforeEvaluation(h, bufs, step, out) ==
    IF bufs = None
    THEN [heap |-> h, curr_step |-> step, written |-> {}, at |-> step,
          error |-> "TypeError", value |-> None]
    ELSE LET w == WriteSlots(h[bufs], step, ff.out, 1, {})
             h2 == [h EXCEPT ![bufs] = w.arrs]
         IN  IF w.error # "none"
             THEN [heap |-> h2, curr_step |-> step, written |-> w.written,
                   at |-> step, error |-> w.error, value |-> None]
             ELSE IF step = NoStep
             THEN [heap |-> h2, curr_step |-> step, written |-> w.written,
                   at |-> step, error |-> "TypeError", value |-> None]
             ELSE [heap |-> h2, curr_step |-> step + 1, written |-> w.written,
                   at |-> step, error |-> "none", value |-> ff.out.acceleration]
ForceCountsFailedWrites(h, bufs, step, out) ==
    IF bufs = None
    THEN [heap |-> h, curr_step |-> step, written |-> {}, at |-> step,
          error |-> "TypeError", value |-> None]
    ELSE LET w == WriteSlots(h[bufs], step, out, 1, {})
             h2 == [h EXCEPT ![bufs] = w.arrs]
         IN  IF step = NoStep
             THEN [heap |-> h2, curr_step |-> step, written |-> w.written,
                   at |-> step, error |-> "TypeError", value |-> None]
             ELSE IF w.error # "none"
             THEN [heap |-> h2, curr_step |-> step + 1, written |-> w.written,
                   at |-> step, error |-> w.error, value |-> None]
             ELSE [heap |-> h2, curr_step |-> step + 1, written |-> w.written,
                   at |-> step, error |-> "none", value |-> out.acceleration]
\* _force after the force-field call returned: the slot writes at index
\* `step`, the counter increment and the returned acceleration.  `written` and
\* `at` report the buffers assigned to and the index used.
Force(h, bufs, step, out) ==
    IF bufs = None
    THEN [heap |-> h, curr_step |-> step, written |-> {}, at |-> step,
          error |-> "TypeError", value |-> None]
    ELSE LET w == WriteSlots(h[bufs], step, out, 1, {})
             h2 == [h EXCEPT ![bufs] = w.arrs]
         IN  IF w.error # "none"
             THEN [heap |-> h2, curr_step |-> step, written |-> w.written,
                   at |-> step, error |-> w.error, value |-> None]
             ELSE IF step = NoStep
             THEN [heap |-> h2, curr_step |-> step, written |-> w.written,
                   at |-> step, error |-> "TypeError", value |-> None]
             ELSE [heap |-> h2, curr_step |-> step + 1, written |-> w.written,
                   at |-> step, error |-> "none", value |-> out.acceleration]

\* What can go wrong in one force-field evaluation: it raises, or its
\* bond_angles output (the first array-valued one written) has a shape that
\* does not fit the buffer row.
ForceFaults == {"none", "raise", "bond_angles"}

\* One invocation of _force(q): the force-field call of line 193, then Force.
\* tag names the in-run invocation (0 for a call made outside ode.integrate).
ForceCall(q, fault, tag) ==
    LET out == FFEval(q, fault)
        f == IF fault = "raise"
             THEN [heap |-> heap, curr_step |-> curr_step, written |-> {},
                   at |-> curr_step, error |-> "ForceFieldError", value |-> None]
             ELSE Force(heap, buffers, curr_step, out)
    IN  /\ ff' = IF fault = "raise" THEN ff ELSE [ff EXCEPT !.out = out]
        /\ heap' = f.heap
        /\ curr_step' = f.curr_step
        /\ wlog' = IF tag = <<>> \/ f.written = {} THEN wlog
                   ELSE [wlog EXCEPT ![buffers] =
                            [b \in BufferNames |->
                                [i \in 1..Len(heap[buffers][b]) |->
                                    IF /\ b \in f.written
                                       /\ i \in SlotsSet(heap[buffers][b], f.at)
                                    THEN Append(@[b][i], tag[1])
                                    ELSE @[b][i]]]]
        /\ result' = [op |-> "force", error |-> f.error, value |-> f.value]

\* A call of _force made by the caller while no run is in progress.
StrayForce(q, fault) ==
    /\ sim = "ready"
    /\ pc = "idle"
    /\ strays < MaxStray
    /\ ForceCall(q, fault, <<>>)
    /\ strays' = strays + 1
    /\ UNCHANGED <<sim, forcefield, ensemble, sized_for, buffers, trajectory,
                   positions, velocities, timestamps, trajs, pc, run, runs>>
    /\ UNCHANGED analyzer_vars

\* What can go wrong before the integration starts.
PrologueFaults == {"none", "initialize", "fit"}

RunPrologueNoReset(h, cur, step, f, num_steps, pbc, fault) ==
    LET nb == NewBuffers(h, cur, num_steps)
        f1 == [f EXCEPT !.initialized = TRUE,
                        !.pbc_cell_lengths =
                            IF pbc THEN Ensemble.box_lengths ELSE "None"]
        f2 == [f1 EXCEPT !.fitted = TRUE]
        f0 == [f EXCEPT !.pbc_cell_lengths = f1.pbc_cell_lengths]
    IN  CASE fault = "initialize" ->
                [heap |-> nb.heap, buffers |-> nb.id, ff |-> f0, curr_step |-> step,
                 error |-> "ForceFieldError"]
          [] fault = "fit" ->
                [heap |-> nb.heap, buffers |-> nb.id, ff |-> f1, curr_step |-> step,
                 error |-> "ForceFieldError"]
          [] OTHER ->
                [heap |-> nb.heap, buffers |-> nb.id, ff |-> f2,
                 curr_step |-> IF step = NoStep THEN 0 ELSE step,
                 error |-> "none"]
RunPrologueAlwaysPeriodic(h, cur, step, f, num_steps, pbc, fault) ==
    LET nb == NewBuffers(h, cur, num_steps)
        f1 == [f EXCEPT !.initialized = TRUE,
                        !.pbc_cell_lengths = Ensemble.box_lengths]
        f2 == [f1 EXCEPT !.fitted = TRUE]
        f0 == [f EXCEPT !.pbc_cell_lengths = f1.pbc_cell_lengths]
    IN  CASE fault = "initialize" ->
                [heap |-> nb.heap, buffers |-> nb.id, ff |-> f0, curr_step |-> step,
                 error |-> "ForceFieldError"]
          [] fault = "fit" ->
                [heap |-> nb.heap, buffers |-> nb.id, ff |-> f1, curr_step |-> step,
                 error |-> "ForceFieldError"]
          [] OTHER ->
                [heap |-> nb.heap, buffers |-> nb.id, ff |-> f2, curr_step |-> 0,
                 error |-> "none"]
RunPrologueResetsFirst(h, cur, step, f, num_steps, pbc, fault) ==
    LET nb == NewBuffers(h, cur, num_steps)
        f1 == [f EXCEPT !.initialized = TRUE,
                        !.pbc_cell_lengths =
                            IF pbc THEN Ensemble.box_lengths ELSE "None"]
        f2 == [f1 EXCEPT !.fitted = TRUE]
        f0 == [f EXCEPT !.pbc_cell_lengths = f1.pbc_cell_lengths]
    IN  CASE fault = "initialize" ->
                [heap |-> nb.heap, buffers |-> nb.id, ff |-> f0, curr_step |-> 0,
                 error |-> "ForceFieldError"]
          [] fault = "fit" ->
                [heap |-> nb.heap, buffers |-> nb.id, ff |-> f1, curr_step |-> 0,
                 error |-> "ForceFieldError"]
          [] OTHER ->
                [heap |-> nb.heap, buffers |-> nb.id, ff |-> f2, curr_step |-> 0,
                 error |-> "none"]
\* run(), lines 120-140: allocate the buffers, initialize the force-field, fit
\* its units, reset the counter.  A collaborator that raises ends run() there.
\* The force-field keeps the pbc_cell_lengths argument of the initialize call
\* it received last, whether or not the call went on to raise.
RunPrologue(h, cur, step, f, num_steps, pbc, fault) ==
    LET nb == NewBuffers(h, cur, num_steps)
        f1 == [f EXCEPT !.initialized = TRUE,
                        !.pbc_cell_lengths =
                            IF pbc THEN Ensemble.box_lengths ELSE "None"]
        f2 == [f1 EXCEPT !.fitted = TRUE]
        f0 == [f EXCEPT !.pbc_cell_lengths = f1.pbc_cell_lengths]
    IN  CASE fault = "initialize" ->
                [heap |-> nb.heap, buffers |-> nb.id, ff |-> f0, curr_step |-> step,
                 error |-> "ForceFieldError"]
          [] fault = "fit" ->
                [heap |-> nb.heap, buffers |-> nb.id, ff |-> f1, curr_step |-> step,
                 error |-> "ForceFieldError"]
          [] OTHER ->
                [heap |-> nb.heap, buffers |-> nb.id, ff |-> f2, curr_step |-> 0,
                 error |-> "none"]

\* The integrators run() can meet: one that keeps the interface contract (one
\* callback on the initial positions, then one per produced state), and a stub
\* that makes one callback more than that.
Integrators == {"contract", "overcall"}

CallsMade(integrator, n_steps) ==
    IF integrator = "overcall" THEN n_steps + 2 ELSE n_steps + 1

\* The array groups the driver or a TrajectoryAnalyzer refers to.
Referenced(bufs, ts) == {bufs} \cup {ts[i].buffers : i \in 1..Len(ts)}

RunBegin(num_steps, dt, pbc, integrator, fault) ==
    /\ sim = "ready"
    /\ pc = "idle"
    /\ runs < MaxRuns
    /\ LET p == RunPrologue(heap, buffers, curr_step, ff, num_steps, pbc, fault)
       IN  /\ heap' = Collect(p.heap, Referenced(p.buffers, trajs))
           /\ buffers' = p.buffers
           /\ sized_for' = [i \in DOMAIN heap' |->
                               IF i = p.buffers THEN num_steps ELSE sized_for[i]]
           /\ wlog' = [i \in DOMAIN heap' |->
                          IF i = p.buffers THEN NoWrites(p.heap[i]) ELSE wlog[i]]
           /\ ff' = p.ff
           /\ curr_step' = p.curr_step
           /\ pc' = IF p.error = "none" THEN "integrating" ELSE "idle"
           /\ run' = [id |-> runs + 1, num_steps |-> num_steps, dt |-> dt, pbc |-> pbc,
                      integrator |-> integrator, calls |-> 0,
                      xs |-> <<>>, vs |-> <<>>, qs |-> <<>>,
                      state |-> IF p.error = "none" THEN "integrating" ELSE "failed"]
           /\ result' = [op |-> "run", error |-> p.error, value |-> None]
    /\ runs' = runs + 1
    /\ UNCHANGED <<sim, forcefield, ensemble, trajectory, positions, velocities,
                   timestamps, trajs, strays>>
    /\ UNCHANGED analyzer_vars

\* The velocity the integrator reports for the state at position x that
\* follows the states xs: the initial velocity, then the displacement per step.
StateVelocity(xs, x) ==
    IF xs = <<>> THEN Ensemble.velocities ELSE x - xs[Len(xs)]

\* ode.integrate, one callback: the integrator hands _force the initial
\* positions, or the state it has just produced; the stub's extra callback
\* repeats the last state.  An exception in the callback ends run().
IntegratorCallback(x, fault) ==
    /\ pc = "integrating"
    /\ run.calls < CallsMade(run.integrator, run.num_steps)
    /\ x = IF run.calls = 0 THEN Ensemble.positions
           ELSE IF run.calls > run.num_steps THEN run.xs[Len(run.xs)]
           ELSE x
    /\ ForceCall(x, fault, <<run.calls>>)
    /\ IF result'.error = "none"
       THEN /\ pc' = "integrating"
            /\ run' = [run EXCEPT !.calls = @ + 1,
                                  !.qs = Append(@, x),
                                  !.xs = IF run.calls > run.num_steps THEN @
                                         ELSE Append(@, x),
                                  !.vs = IF run.calls > run.num_steps THEN @
                                         ELSE Append(@, StateVelocity(run.xs, x))]
       ELSE /\ pc' = "idle"
            /\ run' = [run EXCEPT !.calls = @ + 1, !.qs = Append(@, x),
                                  !.state = "failed"]
    /\ UNCHANGED <<sim, forcefield, ensemble, sized_for, buffers, trajectory,
                   positions, velocities, timestamps, trajs, runs, strays>>
    /\ UNCHANGED analyzer_vars

\* TrajectoryAnalyzer(...) as run() calls it: the object keeps the references
\* it is given.
NewTrajectory(xs, vs, ts, bufs, id) ==
    [positions |-> xs, velocities |-> vs, timestamps |-> ts, buffers |-> bufs,
     run |-> id]

\* What can go wrong after the integrator returned.
EpilogueFaults == {"none", "analyzer"}

RunEpilogueClearsOnFailure(t, ts, bufs, r, fault) ==
    LET times == [i \in 1..Len(r.xs) |-> (i - 1) * r.dt]
    IN  [positions |-> r.xs, velocities |-> r.vs, timestamps |-> times,
         trajs |-> IF fault = "analyzer" THEN ts
                   ELSE Append(ts, NewTrajectory(r.xs, r.vs, times, bufs, r.id)),
         trajectory |-> IF fault = "analyzer" THEN None ELSE Len(ts) + 1,
         error |-> IF fault = "analyzer" THEN "AnalyzerError" ELSE "none"]
\* run(), lines 142-170, after the last callback: bind the three series the
\* integrator returns, then build the TrajectoryAnalyzer and bind it.
RunEpilogue(t, ts, bufs, r, fault) ==
    LET times == [i \in 1..Len(r.xs) |-> (i - 1) * r.dt]
    IN  [positions |-> r.xs, velocities |-> r.vs, timestamps |-> times,
         trajs |-> IF fault = "analyzer" THEN ts
                   ELSE Append(ts, NewTrajectory(r.xs, r.vs, times, bufs, r.id)),
         trajectory |-> IF fault = "analyzer" THEN t ELSE Len(ts) + 1,
         error |-> IF fault = "analyzer" THEN "AnalyzerError" ELSE "none"]

RunFinish(fault) ==
    /\ pc = "integrating"
    /\ run.calls = CallsMade(run.integrator, run.num_steps)
    /\ LET e == RunEpilogue(trajectory, trajs, buffers, run, fault)
       IN  /\ positions' = e.positions
           /\ velocities' = e.velocities
           /\ timestamps' = e.timestamps
           /\ trajs' = e.trajs
           /\ trajectory' = e.trajectory
           /\ run' = [run EXCEPT !.state = IF e.error = "none" THEN "done" ELSE "failed"]
           /\ result' = [op |-> "run", error |-> e.error, value |-> None]
    /\ pc' = "idle"
    /\ UNCHANGED <<sim, forcefield, ensemble, ff, heap, sized_for, wlog, buffers,
                   curr_step, runs, strays>>
    /\ UNCHANGED analyzer_vars

\* -------------------------------------------------------- TrajectoryAnalyzer
\* Atomic numbers of the atoms of the ensemble: one oxygen, then hydrogens.
AtomicNumbers == [a \in Atoms |-> IF a = 1 THEN 8 ELSE 1]

\* data[z]["mass_Da"], in whole daltons: the mass number of the nuclide with as
\* many neutrons as protons.
MassDa(z) == 2 * z

\* The Boltzmann constant converted to unit_energy / unit_temperature.
BoltzmannConst == 1

\* Velocity vectors with a whole-number Euclidean norm.
VelVectors == {<<2 * k, k, 0 - 2 * k>> : k \in 0..MaxSpeed}

\* Energy series the diagnostic buffers of a trajectory may hold.
EnergySeries == {[f \in Frames |-> e * f] : e \in 0..MaxEnergy}

\* numpy.linalg.norm of a 3-vector whose norm is a whole number.
Norm(v) ==
    LET n == v[1] * v[1] + v[2] * v[2] + v[3] * v[3]
    IN  CHOOSE r \in 0..n : r * r = n

\* The position series that goes with a velocity series: the atoms start on a
\* line at the ensemble's spacing and each moves along it, by the speed of its
\* first frame per frame.
PositionsOf(vel) ==
    [f \in Frames |->
        [a \in Atoms |-> a * Ensemble.positions + (f - 1) * Norm(vel[1][a])]]

RECURSIVE SumOver(_, _)
SumOver(f, n) == IF n = 0 THEN 0 ELSE f[n] + SumOver(f, n - 1)

\* The cached quantities; an unset cache attribute (None) is <<>>, a set one
\* is <<value>>.
Quantities ==
    {"speeds", "momenta", "energy_kinetic_per_atom", "temperature",
     "energy_kinetic_total", "energy_potential_total", "energy_total"}

\* The connectivity of the ensemble, a boolean upper-triangular matrix: the
\* first atom is bonded to every other one.
ConnectivityMatrix == [a \in Atoms |-> [b \in Atoms |-> a = 1 /\ b > 1]]

\* The bonded pairs of a connectivity matrix, each unordered pair once.
BondedPairs(c) == {p \in Atoms \X Atoms : c[p[1]][p[2]]}

\* A unit of the duq library: the exponents of its mass, length and time
\* dimensions and its size in base units, a fraction <<numerator, denominator>>.
Unit(m, l, t, n) == [mass |-> m, length |-> l, time |-> t, scale |-> <<n, 1>>]

\* duq.Unit.__mul__, __truediv__ and __pow__ with exponent 2.
UnitMul(u, v) ==
    [mass |-> u.mass + v.mass, length |-> u.length + v.length,
     time |-> u.time + v.time,
     scale |-> <<u.scale[1] * v.scale[1], u.scale[2] * v.scale[2]>>]

UnitDiv(u, v) ==
    [mass |-> u.mass - v.mass, length |-> u.length - v.length,
     time |-> u.time - v.time,
     scale |-> <<u.scale[1] * v.scale[2], u.scale[2] * v.scale[1]>>]

UnitSquare(u) == UnitMul(u, u)

\* duq.Unit("Da")
Dalton == Unit(1, 0, 0, 1)

\* A unit argument of the constructor: a label (str) or a handle (duq.Unit).
UnitArg(form, u) == [form |-> form, unit |-> u]

\* The unit arguments of one constructor call: length and time in base units,
\* and a velocity and an energy unit declared n times the size of the unit
\* composed of the base units, handed over as labels or as handles.
UnitDeclarations ==
    {[unit_length |-> UnitArg(form, Unit(0, 1, 0, 1)),
      unit_time |-> UnitArg(form, Unit(0, 0, 1, 1)),
      unit_velocity |-> UnitArg(form, Unit(0, 1, 0 - 1, n)),
      unit_energy |-> UnitArg(form, Unit(1, 2, 0 - 2, n))] :
        form \in {"label", "handle"}, n \in 1..MaxScale}

\* helpers.convert_to_unit: a handle is returned as it is, a label is
\* resolved to the handle it names.
ConvertToUnit(arg) == arg.unit

\* The unit attributes the properties derive when they find them unset.
UnitFields == {"unit_velocity", "unit_momentum", "unit_energy"}

\* TrajectoryAnalyzer.__init__: keep the arrays, look up the masses, resolve
\* the declared units, set the momentum unit from the mass and velocity unit
\* properties (which return the attributes just set), unset every cache
\* attribute.
NewAnalyzer(pos, vel, coulomb, lj, bond, angle, units) ==
    [positions |-> pos,
     velocities |-> vel,
     connectivity_matrix |-> ConnectivityMatrix,
     bond_lengths |-> <<>>,
     unit_mass |-> Dalton,
     unit_length |-> ConvertToUnit(units.unit_length),
     unit_time |-> ConvertToUnit(units.unit_time),
     unit_velocity |-> <<ConvertToUnit(units.unit_velocity)>>,
     unit_energy |-> <<ConvertToUnit(units.unit_energy)>>,
     unit_momentum |-> <<UnitMul(Dalton, ConvertToUnit(units.unit_velocity))>>,
     atomic_numbers |-> AtomicNumbers,
     masses |-> [a \in Atoms |-> MassDa(AtomicNumbers[a])],
     energy_potential_coulomb |-> coulomb,
     energy_potential_lennard_jones |-> lj,
     energy_potential_bond_vibration |-> bond,
     energy_potential_angle_vibration |-> angle,
     speeds |-> <<>>,
     momenta |-> <<>>,
     energy_kinetic_per_atom |-> <<>>,
     temperature |-> <<>>,
     energy_kinetic_total |-> <<>>,
     energy_potential_total |-> <<>>,
     energy_total |-> <<>>]

\* A _calculate_* method stores its result in the cache attribute q.  st is
\* the analyzer object with the count of calculations run so far.
Store1(st, q, value) ==
    [ta |-> [st.ta EXCEPT ![q] = <<value>>],
     computed |-> [st.computed EXCEPT ![q] = @ + 1]]

FramesOf(st) == 1..Len(st.ta.velocities)

CalculateSpeeds(st) ==
    Store1(st, "speeds",
           [f \in FramesOf(st) |-> [a \in Atoms |-> Norm(st.ta.velocities[f][a])]])

SpeedsAlwaysCalculates(st) == CalculateSpeeds(st)
\* The `speeds` property.
Speeds(st) == IF st.ta.speeds = <<>> THEN CalculateSpeeds(st) ELSE st

CalculateMomentaWithoutSpeeds(st) ==
    Store1(st, "momenta",
           [f \in FramesOf(st) |->
               [a \in Atoms |-> st.ta.masses[a] * Norm(st.ta.velocities[f][a])]])
CalculateMomenta(st) ==
    LET s1 == Speeds(st)
    IN  Store1(s1, "momenta",
               [f \in FramesOf(st) |->
                   [a \in Atoms |-> s1.ta.masses[a] * s1.ta.speeds[1][f][a]]])

\* The `momenta` property.
Momenta(st) == IF st.ta.momenta = <<>> THEN CalculateMomenta(st) ELSE st

CalculateEnergyKineticPerAtom(st) ==
    LET s1 == Momenta(st)
        s2 == Speeds(s1)
    IN  Store1(s2, "energy_kinetic_per_atom",
               [f \in FramesOf(st) |->
                   [a \in Atoms |->
                       (s1.ta.momenta[1][f][a] * s2.ta.speeds[1][f][a]) \div 2]])

\* The `energy_kinetic_per_atom` property.
EnergyKineticPerAtom(st) ==
    IF st.ta.energy_kinetic_per_atom = <<>>
    THEN CalculateEnergyKineticPerAtom(st) ELSE st

CalculateEnergyKineticTotal(st) ==
    LET s1 == EnergyKineticPerAtom(st)
    IN  Store1(s1, "energy_kinetic_total",
               [f \in FramesOf(st) |->
                   SumOver(s1.ta.energy_kinetic_per_atom[1][f], NumAtoms)])

\* The `energy_kinetic_total` property.
EnergyKineticTotal(st) ==
    IF st.ta.energy_kinetic_total = <<>>
    THEN CalculateEnergyKineticTotal(st) ELSE st

CalculateEnergyPotentialTotalNoAngle(st) ==
    Store1(st, "energy_potential_total",
           [f \in FramesOf(st) |->
               st.ta.energy_potential_coulomb[f]
               + st.ta.energy_potential_lennard_jones[f]
               + st.ta.energy_potential_bond_vibration[f]])
CalculateEnergyPotentialTotal(st) ==
    Store1(st, "energy_potential_total",
           [f \in FramesOf(st) |->
               st.ta.energy_potential_coulomb[f]
               + st.ta.energy_potential_lennard_jones[f]
               + st.ta.energy_potential_bond_vibration[f]
               + st.ta.energy_potential_angle_vibration[f]])

\* The `energy_potential_total` property.
EnergyPotentialTotal(st) ==
    IF st.ta.energy_potential_total = <<>>
    THEN CalculateEnergyPotentialTotal(st) ELSE st

CalculateEnergyTotalPotentialOnly(st) ==
    LET s1 == EnergyPotentialTotal(st)
        s2 == EnergyKineticTotal(s1)
    IN  Store1(s2, "energy_total",
               [f \in FramesOf(st) |-> s1.ta.energy_potential_total[1][f]])
CalculateEnergyTotal(st) ==
    LET s1 == EnergyPotentialTotal(st)
        s2 == EnergyKineticTotal(s1)
    IN  Store1(s2, "energy_total",
               [f \in FramesOf(st) |->
                   s1.ta.energy_potential_total[1][f]
                   + s2.ta.energy_kinetic_total[1][f]])

\* The `energy_total` property.
EnergyTotal(st) ==
    IF st.ta.energy_total = <<>> THEN CalculateEnergyTotal(st) ELSE st

\* The temperature of a frame is mean(kinetic energy per atom) / (3/2 k_B),
\* kept as the fraction <<numerator, denominator>>.
CalculateTemperature(st) ==
    LET s1 == EnergyKineticPerAtom(st)
    IN  Store1(s1, "temperature",
               [f \in FramesOf(st) |->
                   <<2 * SumOver(s1.ta.energy_kinetic_per_atom[1][f], NumAtoms),
                     3 * NumAtoms * BoltzmannConst>>])

\* The `temperature` property.
Temperature(st) ==
    IF st.ta.temperature = <<>> THEN CalculateTemperature(st) ELSE st

UnitVelocityAlwaysDerives(st) ==
    Store1(st, "unit_velocity", UnitDiv(st.ta.unit_length, st.ta.unit_time))
\* The `unit_velocity` property.
UnitVelocity(st) ==
    IF st.ta.unit_velocity = <<>>
    THEN Store1(st, "unit_velocity", UnitDiv(st.ta.unit_length, st.ta.unit_time))
    ELSE st

\* The `unit_momentum` property.
UnitMomentum(st) ==
    IF st.ta.unit_momentum = <<>>
    THEN LET s1 == UnitVelocity(st)
         IN  Store1(s1, "unit_momentum",
                    UnitMul(s1.ta.unit_mass, s1.ta.unit_velocity[1]))
    ELSE st

\* The `unit_energy` property.
UnitEnergy(st) ==
    IF st.ta.unit_energy = <<>>
    THEN Store1(st, "unit_energy",
                UnitDiv(UnitMul(st.ta.unit_mass, UnitSquare(st.ta.unit_length)),
                        UnitSquare(st.ta.unit_time)))
    ELSE st

\* Reading the unit property named u.
UnitProperty(u, st) ==
    CASE u = "unit_velocity" -> UnitVelocity(st)
      [] u = "unit_momentum" -> UnitMomentum(st)
      [] u = "unit_energy" -> UnitEnergy(st)

\* One read of a unit property of the analyzer.
ReadUnit(u) ==
    LET st == UnitProperty(u, [ta |-> ta, computed |-> computed])
    IN  /\ ta' = st.ta
        /\ computed' = st.computed
        /\ got' = [q |-> u, value |-> st.ta[u], cached |-> ta[u] # <<>>]
        /\ UNCHANGED driver_vars

\* _extract_bond_lengths: for every frame and bonded pair, the distance
\* between the positions of the two atoms, kept in _bond_lengths.
ExtractBondLengths(st) ==
    Store1(st, "bond_lengths",
           [f \in FramesOf(st) |->
               [p \in BondedPairs(st.ta.connectivity_matrix) |->
                   Abs(st.ta.positions[f][p[2]] - st.ta.positions[f][p[1]])]])

\* plot_distances_bonded_atoms: extract the bond lengths, then plot them;
\* `got` keeps what is plotted.
PlotDistancesBondedAtoms ==
    LET st == ExtractBondLengths([ta |-> ta, computed |-> computed])
    IN  /\ computed.bond_lengths < MaxPlots
        /\ ta' = st.ta
        /\ computed' = st.computed
        /\ got' = [q |-> "bond_lengths", value |-> st.ta.bond_lengths,
                   cached |-> ta.bond_lengths # <<>>]
        /\ UNCHANGED driver_vars

\* Reading the property named q.
Property(q, st) ==
    CASE q = "speeds" -> Speeds(st)
      [] q = "momenta" -> Momenta(st)
      [] q = "energy_kinetic_per_atom" -> EnergyKineticPerAtom(st)
      [] q = "energy_kinetic_total" -> EnergyKineticTotal(st)
      [] q = "energy_potential_total" -> EnergyPotentialTotal(st)
      [] q = "energy_total" -> EnergyTotal(st)
      [] q = "temperature" -> Temperature(st)

\* One read of a derived quantity of the analyzer: `got` keeps the quantity,
\* the value returned and whether the cache attribute was set before the read.
ReadQuantity(q) ==
    LET st == Property(q, [ta |-> ta, computed |-> computed])
    IN  /\ ta' = st.ta
        /\ computed' = st.computed
        /\ got' = [q |-> q, value |-> st.ta[q], cached |-> ta[q] # <<>>]
        /\ UNCHANGED driver_vars

\* ------------------------------------------------------------ specification
\* The attributes a property sets when it finds them unset.
Cached == Quantities \cup UnitFields \cup {"bond_lengths"}

\* No TrajectoryAnalyzer is read while the driver is followed.
NoAnalyzer ==
    /\ ta = NewAnalyzer(<<>>, <<>>, <<>>, <<>>, <<>>, <<>>,
                        CHOOSE units \in UnitDeclarations : TRUE)
    /\ computed = [q \in Cached |-> 0]
    /\ got = [q |-> "none", value |-> <<>>, cached |-> FALSE]

Init ==
    /\ sim = "absent"
    /\ forcefield = "unrelated"
    /\ ensemble = "unrelated"
    /\ ff = FFInitial
    /\ heap = <<>>
    /\ sized_for = <<>>
    /\ wlog = <<>>
    /\ buffers = None
    /\ curr_step = NoStep
    /\ trajectory = None
    /\ positions = <<>>
    /\ velocities = <<>>
    /\ timestamps = <<>>
    /\ trajs = <<>>
    /\ pc = "idle"
    /\ run = NoRun
    /\ runs = 0
    /\ strays = 0
    /\ result = [op |-> "none", error |-> "none", value |-> None]
    /\ NoAnalyzer

\* A TrajectoryAnalyzer built on any velocities and energy series of the bounds,
\* held by a caller; the driver takes no step.
InitAnalyzer ==
    /\ sim = "ready"
    /\ forcefield = "exact"
    /\ ensemble = "exact"
    /\ ff = FFInitial
    /\ heap = <<>>
    /\ sized_for = <<>>
    /\ wlog = <<>>
    /\ buffers = None
    /\ curr_step = NoStep
    /\ trajectory = None
    /\ positions = <<>>
    /\ velocities = <<>>
    /\ timestamps = <<>>
    /\ trajs = <<>>
    /\ pc = "idle"
    /\ run = NoRun
    /\ runs = 0
    /\ strays = 0
    /\ result = [op |-> "init", error |-> "none", value |-> None]
    /\ \E vel \in [Frames -> [Atoms -> VelVectors]] :
       \E coulomb \in EnergySeries, lj \in EnergySeries,
          bond \in EnergySeries, angle \in EnergySeries :
       \E units \in UnitDeclarations :
           ta = NewAnalyzer(PositionsOf(vel), vel, coulomb, lj, bond, angle, units)
    /\ computed = [q \in Cached |-> 0]
    /\ got = [q |-> "none", value |-> <<>>, cached |-> FALSE]

Next ==
    \/ \E ffKind \in Kinds, ensKind \in Kinds : Construct(ffKind, ensKind)
    \/ \E n \in StepCounts, dt \in StepSizes, pbc \in BOOLEAN,
          i \in Integrators, f \in PrologueFaults : RunBegin(n, dt, pbc, i, f)
    \/ \E x \in Coords, f \in ForceFaults : IntegratorCallback(x, f)
    \/ \E f \in EpilogueFaults : RunFinish(f)
    \/ \E x \in Coords, f \in ForceFaults : StrayForce(x, f)
    \/ ReadTrajectory

NextAnalyzer ==
    \/ \E q \in Quantities : ReadQuantity(q)
    \/ \E u \in UnitFields : ReadUnit(u)
    \/ PlotDistancesBondedAtoms

vars ==
    <<sim, forcefield, ensemble, ff, heap, sized_for, wlog, buffers, curr_step,
      trajectory, positions, velocities, timestamps, trajs, pc, run, runs, strays,
      result, ta, computed, got>>

Spec == Init /\ [][Next]_vars

SpecAnalyzer == InitAnalyzer /\ [][NextAnalyzer]_vars

\* ------------------------------------------------------------------ claims
\* run() has just returned without raising.
Returned == pc = "idle" /\ result.op = "run" /\ result.error = "none"

\* Slot i (from 1) of every buffer of array group id holds what the
\* force-field reports for positions q.
SlotHolds(id, i, q) ==
    \A b \in BufferNames : heap[id][b][i] = FFEval(q, "none")[SourceOf(b)]

\* Slot i (from 1) of every buffer of array group id was written in a run.
SlotWritten(id, i) == \A b \in BufferNames : wlog[id][b][i] # <<>>

\* C1: every array group allocated for num_steps steps keeps, for as long as
\* it lives, num_steps+1 slots in each energy buffer, num_steps+1 rows of
\* number_molecules_total bond angles and num_steps+1 frames of
\* number_atoms_total x number_atoms_total distances.
C1BufferShape ==
    \A id \in DOMAIN heap :
        /\ \A b \in BufferNames : Len(heap[id][b]) = sized_for[id] + 1
        /\ \A i \in 1..Len(heap[id].bond_angles) :
              Len(heap[id].bond_angles[i]) = NumMolecules
        /\ \A i \in 1..Len(heap[id].distances_interatomic) :
              /\ Len(heap[id].distances_interatomic[i]) = NumAtoms
              /\ \A a \in Atoms : Len(heap[id].distances_interatomic[i][a]) = NumAtoms

C1Witness ==
    /\ pc = "integrating"
    /\ run.num_steps = MaxSteps
    /\ run.calls = run.num_steps + 1
    /\ sized_for[buffers] = MaxSteps

\* C2: in a run, slot i of a buffer is written by invocation i of the callback
\* and by no other, at most once; and once invocation i has returned, slot i of
\* all six buffers has been written.
C2SlotWrittenOnceByItsInvocation ==
    /\ \A id \in DOMAIN heap : \A b \in BufferNames : \A i \in 1..Len(heap[id][b]) :
          wlog[id][b][i] \in {<<>>, <<i - 1>>}
    /\ pc = "integrating" =>
          \A b \in BufferNames : \A i \in 1..Len(heap[buffers][b]) :
              wlog[buffers][b][i] = IF i <= run.calls THEN <<i - 1>> ELSE <<>>

C2Witness ==
    /\ pc = "integrating"
    /\ run.calls = 2
    /\ run.num_steps = 2

\* C3: the callback invocation that follows num_steps+1 invocations of a run
\* raises and ends the run; it changes no buffer (no growth, no wraparound, no
\* overwrite) and leaves the step counter as it was.
C3OverflowFails ==
    [][(/\ pc = "integrating"
        /\ run.calls = run.num_steps + 1
        /\ run'.calls = run.calls + 1)
       => (/\ result'.error \in {"IndexError", "ForceFieldError"}
           /\ pc' = "idle"
           /\ run'.state = "failed"
           /\ heap' = heap
           /\ curr_step' = curr_step)]_vars

C3Witness ==
    /\ run.integrator = "overcall"
    /\ run.calls = run.num_steps + 2
    /\ run.state = "failed"
    /\ result.op = "force"
    /\ result.error = "IndexError"

\* C4: when run() returns without raising, the callback has been invoked
\* num_steps+1 times in that run, the counter is num_steps+1 and every slot
\* 0..num_steps of every buffer has been written.
C4CompleteOnReturn ==
    Returned =>
        /\ run.calls = run.num_steps + 1
        /\ curr_step = run.num_steps + 1
        /\ \A i \in 1..(run.num_steps + 1) : SlotWritten(buffers, i)

C4Witness == Returned /\ run.num_steps = MaxSteps

\* C5: with an integrator that keeps its contract, the positions passed to
\* invocation i are frame i of the series the run returns, and slot i of the
\* buffers of the Trajectory holds the force-field outputs for that frame.
C5StepAlignment ==
    /\ (Returned /\ run.integrator = "contract") =>
          /\ run.qs = positions
          /\ trajs[trajectory].positions = positions
    /\ \A k \in 1..Len(trajs) :
          /\ Len(trajs[k].positions) = sized_for[trajs[k].buffers] + 1
          /\ \A i \in 1..Len(trajs[k].positions) :
                SlotHolds(trajs[k].buffers, i, trajs[k].positions[i])

C5Witness ==
    /\ Returned
    /\ run.integrator = "contract"
    /\ run.num_steps = 2
    /\ positions[2] # positions[3]
    /\ positions[1] # positions[2]

\* C6: a run that fails builds no Trajectory, and every Trajectory the
\* accessor can return has all its buffer slots written.
C6NoPartialTrajectory ==
    /\ run.state = "failed" => \A k \in 1..Len(trajs) : trajs[k].run # run.id
    /\ TrajectoryProperty(trajectory).error = "none" =>
          LET t == trajs[TrajectoryProperty(trajectory).value]
          IN  \A i \in 1..Len(heap[t.buffers].energy_potential_coulomb) :
                  SlotWritten(t.buffers, i)

C6Witness ==
    /\ run.state = "failed"
    /\ pc = "idle"
    /\ run.calls = 2
    /\ run.num_steps = 2
    /\ trajectory # None
    /\ \E b \in BufferNames : wlog[buffers][b][2] = <<>>
    /\ \E b \in BufferNames : wlog[buffers][b][2] # <<>>

\* C7: while no run() has completed successfully, reading the trajectory
\* raises the not-yet-run error and returns nothing.
C7NotYetRun ==
    (sim = "ready" /\ Len(trajs) = 0) =>
        /\ TrajectoryProperty(trajectory) = [error |-> "ValueError", value |-> None]
        /\ result.op = "trajectory" =>
              (result.error = "ValueError" /\ result.value = None)

C7Witness ==
    /\ result.op = "trajectory"
    /\ result.error = "ValueError"
    /\ runs = 1
    /\ run.state = "failed"

\* C8: a constructor call with a force-field or an ensemble of an unrelated
\* class raises, and then nothing was or will be run, allocated or evaluated.
C8InvalidCollaboratorRejected ==
    (sim # "absent" /\ (forcefield = "unrelated" \/ ensemble = "unrelated")) =>
        /\ sim = "rejected"
        /\ result = [op |-> "init", error |-> "ValueError", value |-> None]
        /\ runs = 0
        /\ strays = 0
        /\ DOMAIN heap = {}
        /\ ff = FFInitial

C8Witness ==
    /\ sim = "rejected"
    /\ forcefield = "subclass"
    /\ ensemble = "unrelated"

\* C10: no step of the driver changes what a constructed Trajectory holds:
\* its positions, velocities, timestamps, and the contents of its six arrays.
C10TrajectoryImmutable ==
    [][\A k \in 1..Len(trajs) :
          /\ Len(trajs') >= k
          /\ trajs'[k] = trajs[k]
          /\ trajs[k].buffers \in DOMAIN heap'
          /\ heap'[trajs[k].buffers] = heap[trajs[k].buffers]]_vars

C10Witness ==
    /\ Len(trajs) = 1
    /\ runs = 2
    /\ run.id = 2
    /\ run.calls >= 2
    /\ strays = 1

\* C11: when the integration of a second or later run() call starts (the
\* call was not ended by a collaborator that raised), and before its first
\* callback invocation, the six buffer attributes refer to newly allocated
\* all-zero arrays of num_steps+1 slots that no Trajectory holds and no
\* invocation has written, and the step counter is 0.
C11RerunStartsFresh ==
    (pc = "integrating" /\ run.id >= 2 /\ run.calls = 0) =>
        /\ heap[buffers] = AllocBuffers(run.num_steps)
        /\ sized_for[buffers] = run.num_steps
        /\ wlog[buffers] = NoWrites(heap[buffers])
        /\ \A k \in 1..Len(trajs) : trajs[k].buffers # buffers
        /\ curr_step = 0

C11Witness ==
    /\ pc = "integrating"
    /\ run.id = 2
    /\ run.calls = 0
    /\ curr_step = 0
    /\ trajectory # None
    /\ sized_for[trajs[trajectory].buffers] = 2
    /\ run.num_steps = 1
    /\ heap[trajs[trajectory].buffers].energy_potential_coulomb[3] > 0

\* C12: while the integrator runs, every state it has produced so far has its
\* slot written in all six buffers, and it produces the next state only when
\* the slots of all earlier states are written; the driver's trajectory
\* attribute never refers to a Trajectory of the run in progress, it is bound
\* only by the step that follows the integrator's last callback, and the
\* Trajectory it refers to has every slot of every frame written.
C12SlotBeforeNextState ==
    /\ [](pc = "integrating" =>
             /\ \A i \in 1..Len(run.xs) : SlotWritten(buffers, i)
             /\ \A k \in 1..Len(trajs) : trajs[k].run # run.id)
    /\ [](trajectory # None =>
             \A i \in 1..Len(trajs[trajectory].positions) :
                 SlotWritten(trajs[trajectory].buffers, i))
    /\ [][(pc = "integrating" /\ Len(run'.xs) > Len(run.xs)) =>
             /\ Len(run'.xs) = Len(run.xs) + 1
             /\ \A i \in 1..Len(run.xs) : SlotWritten(buffers, i)]_vars
    /\ [][trajectory' # trajectory =>
             /\ pc = "integrating"
             /\ run.calls = CallsMade(run.integrator, run.num_steps)
             /\ pc' = "idle"
             /\ trajs'[trajectory'].run = run.id]_vars

C12Witness ==
    /\ pc = "integrating"
    /\ run.id = 2
    /\ Len(run.xs) = 2
    /\ run.num_steps = 2
    /\ trajectory # None
    /\ trajs[trajectory].run = 1
    /\ wlog[buffers].distances_interatomic[3] = <<>>

\* C13: a _force invocation that returns leaves in the slot it wrote, in each
\* of the six buffers, the output of the force-field evaluation it made, and
\* returns that evaluation's acceleration; an invocation made by the
\* integrator evaluates the positions it was handed; and whatever a _force
\* invocation changes in a buffer, also one that raises part-way, is an output
\* of its own evaluation.
C13ReadsOwnEvaluation ==
    [][result'.op = "force" =>
          /\ result'.error = "none" =>
                /\ \A b \in BufferNames :
                      heap'[buffers][b][Slot(Len(heap[buffers][b]), curr_step)]
                          = ff'.out[SourceOf(b)]
                /\ result'.value = ff'.out.acceleration
          /\ (result'.error # "ForceFieldError" /\ Len(run'.qs) > Len(run.qs)) =>
                ff'.out = FFEval(run'.qs[Len(run'.qs)], ff'.out.malformed)
          /\ \A id \in DOMAIN heap : \A b \in BufferNames :
                \A i \in 1..Len(heap[id][b]) :
                    heap'[id][b][i] # heap[id][b][i] =>
                        (id = buffers /\ heap'[id][b][i] = ff'.out[SourceOf(b)])]_vars

C13Witness ==
    /\ result.op = "force"
    /\ result.error = "none"
    /\ pc = "integrating"
    /\ run.calls = 2
    /\ run.qs[2] # run.qs[1]
    /\ result.value = FFEval(run.qs[2], "none").acceleration
    /\ heap[buffers].energy_potential_coulomb[1] # heap[buffers].energy_potential_coulomb[2]

\* C9: the calculation of a derived quantity runs at most once; once a cache
\* attribute is set no read changes it or runs its calculation again, and a
\* read of it returns the cached value.
C9CachedOnce ==
    /\ [](\A q \in Quantities : computed[q] <= 1)
    /\ [][\A q \in Quantities :
             ta[q] # <<>> =>
                 /\ ta'[q] = ta[q]
                 /\ computed'[q] = computed[q]
                 /\ got'.q = q => (got'.cached /\ got'.value = ta[q])]_vars

C9Witness ==
    /\ got.q = "energy_kinetic_per_atom"
    /\ got.cached
    /\ computed.energy_total = 1
    /\ computed.temperature = 1
    /\ computed.speeds = 1
    /\ \E f \in Frames : got.value[1][f][1] > 0

\* C14: once the total potential energy of a TrajectoryAnalyzer is set, its
\* value at every frame is the sum of the Coulomb, Lennard-Jones,
\* bond-vibration and angle-vibration energies the analyzer holds for that
\* frame, and a read of it returns one value per frame with that sum.
C14PotentialIsSumOfFour ==
    /\ ta.energy_potential_total # <<>> =>
          /\ DOMAIN ta.energy_potential_total[1] = Frames
          /\ \A f \in Frames :
                ta.energy_potential_total[1][f]
                    = ta.energy_potential_coulomb[f]
                      + ta.energy_potential_lennard_jones[f]
                      + ta.energy_potential_bond_vibration[f]
                      + ta.energy_potential_angle_vibration[f]
    /\ got.q = "energy_potential_total" => got.value = ta.energy_potential_total

C14Witness ==
    /\ got.q = "energy_potential_total"
    /\ ta.energy_potential_coulomb[NumFrames] > 0
    /\ ta.energy_potential_angle_vibration[NumFrames] > 0
    /\ ta.energy_potential_lennard_jones[NumFrames] = 0
    /\ got.value[1][NumFrames] = 2 * NumFrames * MaxEnergy

\* The kinetic energy of frame f of analyzer a, computed from its velocities
\* and masses alone.
KineticOf(a, f) ==
    SumOver([x \in Atoms |->
                (a.masses[x] * Norm(a.velocities[f][x]) * Norm(a.velocities[f][x]))
                    \div 2],
            NumAtoms)

\* The potential energy of frame f of analyzer a, from its four energy series.
PotentialOf(a, f) ==
    a.energy_potential_coulomb[f] + a.energy_potential_lennard_jones[f]
    + a.energy_potential_bond_vibration[f] + a.energy_potential_angle_vibration[f]

\* C15: after any sequence of reads, whichever of the total, kinetic and
\* potential energy are set hold, at every frame, the kinetic energy of the
\* velocities, the sum of the four potential terms, and for the total energy
\* the sum of those two; a set total energy implies the other two are set, and
\* a read returns the value the cache attribute holds.
C15TotalIsKineticPlusPotential ==
    /\ ta.energy_kinetic_total # <<>> =>
          \A f \in Frames : ta.energy_kinetic_total[1][f] = KineticOf(ta, f)
    /\ ta.energy_potential_total # <<>> =>
          \A f \in Frames : ta.energy_potential_total[1][f] = PotentialOf(ta, f)
    /\ ta.energy_total # <<>> =>
          /\ ta.energy_kinetic_total # <<>>
          /\ ta.energy_potential_total # <<>>
          /\ \A f \in Frames :
                /\ ta.energy_total[1][f]
                      = ta.energy_kinetic_total[1][f] + ta.energy_potential_total[1][f]
                /\ ta.energy_total[1][f] = KineticOf(ta, f) + PotentialOf(ta, f)
    /\ got.q \in {"energy_total", "energy_kinetic_total", "energy_potential_total"} =>
          got.value = ta[got.q]

C15Witness ==
    /\ got.q = "energy_total"
    /\ ~got.cached
    /\ computed.energy_kinetic_total = 1
    /\ computed.energy_potential_total = 1
    /\ \E f \in Frames :
          /\ KineticOf(ta, f) > 0
          /\ PotentialOf(ta, f) > 0
          /\ got.value[1][f] = KineticOf(ta, f) + PotentialOf(ta, f)

\* C16: the pbc_cell_lengths argument the force-field received in the
\* initialize call of the latest run() is the ensemble's box lengths if that
\* run's pbc flag is true and None if it is false; before the first run() the
\* force-field has received no initialize call.
C16PeriodicGeometryIffFlag ==
    /\ runs = 0 => ff.pbc_cell_lengths = "unset"
    /\ runs >= 1 =>
          /\ run.pbc <=> ff.pbc_cell_lengths = Ensemble.box_lengths
          /\ ~run.pbc <=> ff.pbc_cell_lengths = "None"

C16Witness ==
    /\ runs = 2
    /\ ~run.pbc
    /\ ff.pbc_cell_lengths = "None"
    /\ Len(trajs) = 2
    /\ run.state = "done"

\* C17 as stated: the velocity, momentum and energy unit attributes are unset
\* until a unit is read, each is derived at most once, and a set one is the
\* unit derived from the mass, length and time units.
C17LazilyDerivedFromBase ==
    /\ got.q = "none" => \A u \in UnitFields : ta[u] = <<>>
    /\ \A u \in UnitFields : computed[u] <= 1
    /\ ta.unit_velocity # <<>> =>
          ta.unit_velocity[1] = UnitDiv(ta.unit_length, ta.unit_time)
    /\ ta.unit_momentum # <<>> =>
          ta.unit_momentum[1]
              = UnitMul(ta.unit_mass, UnitDiv(ta.unit_length, ta.unit_time))
    /\ ta.unit_energy # <<>> =>
          ta.unit_energy[1]
              = UnitDiv(UnitMul(ta.unit_mass, UnitSquare(ta.unit_length)),
                        UnitSquare(ta.unit_time))

\* C17: the velocity, momentum and energy unit attributes are set by the
\* constructor, before any read, and the momentum unit is the product of the
\* mass unit and the velocity unit; no read changes a unit attribute or runs
\* a derivation from the base units, and a read of one returns the stored unit.
C17UnitsSetAtConstruction ==
    /\ [](\A u \in UnitFields : ta[u] # <<>> /\ computed[u] = 0)
    /\ [](ta.unit_momentum[1] = UnitMul(ta.unit_mass, ta.unit_velocity[1]))
    /\ [][\A u \in UnitFields :
             /\ ta'[u] = ta[u]
             /\ got'.q = u => (got'.cached /\ got'.value = ta[u])]_vars

C17Witness ==
    /\ got.q = "unit_velocity"
    /\ got.cached
    /\ got.value[1] # UnitDiv(ta.unit_length, ta.unit_time)
    /\ got.value[1].scale = <<MaxScale, 1>>
    /\ ta.unit_energy[1]
          # UnitDiv(UnitMul(ta.unit_mass, UnitSquare(ta.unit_length)),
                    UnitSquare(ta.unit_time))

\* C18: the bond lengths are computed at most once per TrajectoryAnalyzer, a
\* set cache attribute has been computed exactly once, and reading them
\* yields, for each frame, one value for each bonded pair of the connectivity.
C18BondLengthCachedOnce ==
    /\ computed.bond_lengths <= 1
    /\ ta.bond_lengths # <<>> => computed.bond_lengths = 1
    /\ got.q = "bond_lengths" =>
          /\ got.value # <<>>
          /\ DOMAIN got.value[1] = Frames
          /\ \A f \in Frames :
                DOMAIN got.value[1][f] = BondedPairs(ta.connectivity_matrix)

\* C19: a _force invocation made while the step counter is an integer i
\* changes, in the arrays, nothing but slot i of the six buffers the driver
\* refers to; it leaves the driver's trajectory, positions, velocities and
\* timestamps attributes, the Trajectory objects, the buffer references and the
\* ensemble and force-field references as they are, and the counter stays or
\* advances by one.
C19OnlyCurrentSlotChanges ==
    [][(result'.op = "force" /\ curr_step # NoStep) =>
          /\ DOMAIN heap' = DOMAIN heap
          /\ \A id \in DOMAIN heap : \A b \in BufferNames :
                /\ Len(heap'[id][b]) = Len(heap[id][b])
                /\ \A j \in 1..Len(heap[id][b]) :
                      (id # buffers \/ j # curr_step + 1) =>
                          heap'[id][b][j] = heap[id][b][j]
          /\ UNCHANGED <<trajectory, positions, velocities, timestamps, trajs,
                         buffers, sized_for, ensemble, forcefield, sim>>
          /\ curr_step' \in {curr_step, curr_step + 1}]_vars

C19Witness ==
    /\ result.op = "force"
    /\ result.error = "none"
    /\ pc = "integrating"
    /\ curr_step = 2
    /\ run.num_steps = 2
    /\ trajectory # None
    /\ heap[buffers].energy_potential_lennard_jones[1] > 0
    /\ heap[buffers].distances_interatomic[2][1][2] > 0
    /\ heap[buffers].distances_interatomic[3][1][2] = 0

\* C20: every run() call allocates the buffers first, also when the
\* force-field initialization or the unit fitting raises; a call that one of
\* them ends leaves the counter as it was and never enters the integrator;
\* the units are fitted only on an initialized force-field; the counter is
\* reset to 0 after both succeeded and before the integrator's first callback,
\* which finds counter 0 and all-zero, unwritten buffers; and a Trajectory is
\* built only by the step that follows the integrator's last callback.
C20RunOrder ==
    /\ [](ff.fitted => ff.initialized)
    /\ [](pc = "integrating" =>
             /\ ff.initialized
             /\ ff.fitted
             /\ run.calls = 0 =>
                   /\ curr_step = 0
                   /\ heap[buffers] = AllocBuffers(run.num_steps)
                   /\ wlog[buffers] = NoWrites(heap[buffers]))
    /\ [][runs' = runs + 1 =>
             /\ buffers' # buffers
             /\ buffers' \notin DOMAIN heap
             /\ heap'[buffers'] = AllocBuffers(run'.num_steps)
             /\ result'.error # "none" =>
                   /\ curr_step' = curr_step
                   /\ pc' = "idle"
                   /\ run'.calls = 0
                   /\ ~ff'.initialized => ~ff'.fitted
             /\ result'.error = "none" =>
                   /\ curr_step' = 0
                   /\ pc' = "integrating"
                   /\ run'.calls = 0]_vars
    /\ [][Len(trajs') # Len(trajs) =>
             /\ pc = "integrating"
             /\ run.calls = CallsMade(run.integrator, run.num_steps)
             /\ pc' = "idle"
             /\ trajs' = Append(trajs, trajs'[Len(trajs')])
             /\ trajs'[Len(trajs')].buffers = buffers]_vars

C20Witness ==
    /\ runs = 2
    /\ result.op = "run"
    /\ result.error = "ForceFieldError"
    /\ ff.fitted
    /\ curr_step = 3
    /\ heap[buffers] = AllocBuffers(1)
    /\ trajectory # None

\* C21: while the integrator of a run is running, the step counter lies in
\* 0..num_steps+1 and equals the number of callback invocations of the run so
\* far, all of which returned; a _force invocation that raises, in the
\* force-field call, in a slot write or anywhere else, leaves the counter as
\* it was, and one that returns advances it by exactly one.
C21CounterCountsSuccesses ==
    /\ [](pc = "integrating" =>
             /\ 0 <= curr_step
             /\ curr_step <= run.num_steps + 1
             /\ curr_step = run.calls
             /\ curr_step = Len(run.qs))
    /\ [][result'.op = "force" =>
             /\ result'.error # "none" => curr_step' = curr_step
             /\ result'.error = "none" => curr_step' = curr_step + 1
             /\ pc = "integrating" =>
                   /\ run'.calls = run.calls + 1
                   /\ result'.error # "none" => pc' = "idle"]_vars

C21Witness ==
    /\ result.op = "force"
    /\ result.error = "ValueError"
    /\ run.state = "failed"
    /\ run.num_steps = 2
    /\ run.calls = 2
    /\ curr_step = 1
    /\ wlog[buffers].energy_potential_coulomb[2] = <<1>>
    /\ wlog[buffers].bond_angles[2] = <<>>

\* C22: after any sequence of reads, a set total energy implies a set total
\* potential and total kinetic energy, a set total kinetic energy or
\* temperature implies a set kinetic energy per atom, a set kinetic energy per
\* atom implies set momenta and speeds, and set momenta imply set speeds.
C22CacheClosedUnderDependency ==
    /\ ta.energy_total # <<>> =>
          (ta.energy_potential_total # <<>> /\ ta.energy_kinetic_total # <<>>)
    /\ ta.energy_kinetic_total # <<>> => ta.energy_kinetic_per_atom # <<>>
    /\ ta.temperature # <<>> => ta.energy_kinetic_per_atom # <<>>
    /\ ta.energy_kinetic_per_atom # <<>> => (ta.momenta # <<>> /\ ta.speeds # <<>>)
    /\ ta.momenta # <<>> => ta.speeds # <<>>

C22Witness ==
    /\ got.q = "temperature"
    /\ ~got.cached
    /\ ta.speeds # <<>>
    /\ ta.momenta # <<>>
    /\ ta.energy_kinetic_per_atom # <<>>
    /\ ta.energy_kinetic_total = <<>>
    /\ ta.energy_potential_total # <<>>
    /\ ta.energy_total = <<>>
    /\ computed.speeds = 1

\* C23: once a run() of the driver has built a Trajectory, a later run() that
\* fails leaves the trajectory attribute on the Trajectory built last: the
\* accessor returns it and does not raise, it is of an earlier run, its arrays
\* are not the ones the failed run allocated, every slot of them still holds
\* what the earlier run wrote for that frame, and the step that fails changes
\* neither the Trajectory nor its arrays.
C23FailedRunKeepsTrajectory ==
    /\ []((run.state = "failed" /\ Len(trajs) >= 1) =>
             /\ trajectory = Len(trajs)
             /\ TrajectoryProperty(trajectory)
                   = [error |-> "none", value |-> Len(trajs)]
             /\ result.op = "trajectory" =>
                   (result.error = "none" /\ result.value = Len(trajs))
             /\ trajs[trajectory].run < run.id
             /\ trajs[trajectory].buffers # buffers
             /\ trajs[trajectory].buffers \in DOMAIN heap
             /\ \A i \in 1..Len(trajs[trajectory].positions) :
                   /\ SlotHolds(trajs[trajectory].buffers, i,
                                trajs[trajectory].positions[i])
                   /\ \A b \in BufferNames :
                         wlog[trajs[trajectory].buffers][b][i] = <<i - 1>>)
    /\ [][(run'.state = "failed" /\ Len(trajs) >= 1) =>
             /\ trajectory' = trajectory
             /\ trajs' = trajs
             /\ heap'[trajs[trajectory].buffers] = heap[trajs[trajectory].buffers]]_vars

C23Witness ==
    /\ runs = 2
    /\ run.state = "failed"
    /\ result.op = "trajectory"
    /\ result.error = "none"
    /\ result.value = 1
    /\ Len(trajs[1].positions) = 2
    /\ run.num_steps = 2
    /\ run.calls = 3
    /\ wlog[buffers].energy_potential_coulomb[2] # <<>>
    /\ wlog[buffers].energy_potential_coulomb[3] # <<>>
    /\ wlog[buffers].distances_interatomic[3] = <<>>
====
